---- MODULE Spec2Model ----
(***************************************************************************)
(* Asclepius: the secure evaluation pipeline.                              *)
(*   scrubber.py   LocalPIIScrubber.scrub_text                              *)
(*   evaluator.py  ClinicalEvaluator.evaluate_transaction                   *)
(*   main.py       HealthAIGateway.__init__ / process_transaction           *)
(*   app.py        lifespan / evaluate_health_ai                            *)
(* Text is a sequence of one-character strings; offsets are Python's        *)
(* (0-based, end exclusive).  The detection engine (Presidio) and the       *)
(* judge (Gemini) are external: their answers are inputs chosen with \E.    *)
(***************************************************************************)
EXTENDS Integers, Sequences, FiniteSets, TLC

---------------------------------------------------------------------------
(* Bounds *)

\* longest text handed to scrub_text in the scrub_text specification
MaxLen == 3

\* largest number of spans the detection engine returns for one text
MaxSpans == 2

\* longest field of a transaction in the gateway specification
MaxFieldLen == 1

---------------------------------------------------------------------------
(* Inputs *)

\* characters of raw text in the scrub_text specification
Alphabet == {"a", "b"}

\* characters of raw transaction fields in the gateway specification
FieldAlphabet == {"a"}

\* The entity types the engine is asked for (scrubber.py, target_entities).
target_entitiesWithLocation ==
  {"PERSON", "PHONE_NUMBER", "EMAIL_ADDRESS", "US_SSN", "US_DRIVER_LICENSE", "DATE_TIME",
   "LOCATION"}

target_entities ==
  {"PERSON", "PHONE_NUMBER", "EMAIL_ADDRESS", "US_SSN", "US_DRIVER_LICENSE", "DATE_TIME"}

\* the arguments of analyzer.analyze next to the text
analyze_request == [entities |-> target_entities, language |-> "en"]

\* The types the modelled engine can recognize in a language: one per
\* placeholder class, and one that scrub_text does not ask for.
SupportedTypes(language) ==
  IF language = "en" THEN {"PERSON", "PHONE_NUMBER", "EMAIL_ADDRESS", "LOCATION"} ELSE {}

\* The types the engine answers with: those it recognizes among those asked.
DetectedTypes == SupportedTypes(analyze_request.language) \cap analyze_request.entities

SeqsUpTo(S, n) == UNION {[1..k -> S] : k \in 0..n}

Texts == SeqsUpTo(Alphabet, MaxLen)

FieldTexts == SeqsUpTo(FieldAlphabet, MaxFieldLen)

---------------------------------------------------------------------------
(* scrubber.py *)

PATIENT_NAME == <<"<", "P", "A", "T", "I", "E", "N", "T", "_", "N", "A", "M", "E", ">">>
PHONE == <<"<", "P", "H", "O", "N", "E", ">">>
REDACTED == <<"<", "R", "E", "D", "A", "C", "T", "E", "D", ">">>

\* operators={"DEFAULT": ..., "PERSON": ..., "PHONE_NUMBER": ...}
operatorsNoPhone(entity_type) ==
  IF entity_type = "PERSON" THEN PATIENT_NAME ELSE REDACTED

operators(entity_type) ==
  IF entity_type = "PERSON" THEN PATIENT_NAME
  ELSE IF entity_type = "PHONE_NUMBER" THEN PHONE
  ELSE REDACTED

\* A span as the analyzer reports it: text[start:end] is of type entity_type.
SpansOf(text) ==
  {[start |-> s, end |-> e, entity_type |-> t] :
      s \in 0..(Len(text) - 1), e \in 1..Len(text), t \in DetectedTypes}

Overlap(a, b) == a.start < b.end /\ b.start < a.end

\* What analyzer.analyze can return for a text: a list of well-formed,
\* pairwise non-overlapping spans, in any order.
AnalyzerResults(text) ==
  {r \in SeqsUpTo({s \in SpansOf(text) : s.start < s.end}, MaxSpans) :
      \A i, j \in 1..Len(r) : i # j => ~Overlap(r[i], r[j])}

\* The engine's behaviour in one scrub_text call: it raises in analyze, raises
\* in anonymize, or answers with results.
EngineOutcomes(text) ==
  {[raises |-> "none", results |-> r] : r \in AnalyzerResults(text)}
    \cup {[raises |-> k, results |-> <<>>] : k \in {"analyze", "anonymize"}}

\* anonymizer.anonymize with the "replace" operator: the spans are replaced
\* from the last one to the first, so that earlier offsets stay valid.
RECURSIVE anonymize(_, _)
anonymize(text, spans) ==
  IF spans = {} THEN text
  ELSE LET last == CHOOSE s \in spans : \A o \in spans : o.start <= s.start
           replaced == SubSeq(text, 1, last.start) \o operators(last.entity_type)
                         \o SubSeq(text, last.end + 1, Len(text))
       IN  anonymize(replaced, spans \ {last})

Range(f) == {f[i] : i \in DOMAIN f}

\* LocalPIIScrubber.scrub_text.  The result records, next to the returned
\* pair (text, types), whether the call raised and how many engine calls
\* it made.
scrub_textNoGuard(text, engine) ==
  IF engine.raises = "analyze"
  THEN [raised |-> TRUE, text |-> <<>>, types |-> <<>>, analyze_calls |-> 1, anonymize_calls |-> 0]
  ELSE IF engine.raises = "anonymize"
  THEN [raised |-> TRUE, text |-> <<>>, types |-> <<>>, analyze_calls |-> 1, anonymize_calls |-> 1]
  ELSE [raised |-> FALSE,
        text |-> anonymize(text, Range(engine.results)),
        types |-> [i \in 1..Len(engine.results) |-> engine.results[i].entity_type],
        analyze_calls |-> 1, anonymize_calls |-> 1]

scrub_textFallback(text, engine) ==
  IF text = <<>>
  THEN [raised |-> FALSE, text |-> <<>>, types |-> <<>>, analyze_calls |-> 0, anonymize_calls |-> 0]
  ELSE IF engine.raises = "analyze"
  THEN [raised |-> FALSE, text |-> text, types |-> <<>>, analyze_calls |-> 1, anonymize_calls |-> 0]
  ELSE IF engine.raises = "anonymize"
  THEN [raised |-> FALSE, text |-> text, types |-> <<>>, analyze_calls |-> 1, anonymize_calls |-> 1]
  ELSE [raised |-> FALSE,
        text |-> anonymize(text, Range(engine.results)),
        types |-> [i \in 1..Len(engine.results) |-> engine.results[i].entity_type],
        analyze_calls |-> 1, anonymize_calls |-> 1]

scrub_text(text, engine) ==
  IF text = <<>>
  THEN [raised |-> FALSE, text |-> <<>>, types |-> <<>>, analyze_calls |-> 0, anonymize_calls |-> 0]
  ELSE IF engine.raises = "analyze"
  THEN [raised |-> TRUE, text |-> <<>>, types |-> <<>>, analyze_calls |-> 1, anonymize_calls |-> 0]
  ELSE IF engine.raises = "anonymize"
  THEN [raised |-> TRUE, text |-> <<>>, types |-> <<>>, analyze_calls |-> 1, anonymize_calls |-> 1]
  ELSE [raised |-> FALSE,
        text |-> anonymize(text, Range(engine.results)),
        types |-> [i \in 1..Len(engine.results) |-> engine.results[i].entity_type],
        analyze_calls |-> 1, anonymize_calls |-> 1]

---------------------------------------------------------------------------
(* evaluator.py *)

safety_rubric == "You are a Clinical Safety Auditor. ..."

\* The prompt of evaluate_transaction: the rubric and the three arguments.
prompt_of(query, context, response) ==
  [rubric |-> safety_rubric, query |-> query, context |-> context, response |-> response]

\* A reply of the judge is a sequence of tokens: the Markdown code fences
\* (three backquotes, with or without json) and the body between them.
Fences == {"<fence>json", "<fence>"}

GoodVerdict ==
  [score |-> 7, hallucination_detected |-> TRUE, missing_warnings |-> FALSE,
   reasoning |-> "Response omits the kidney warning."]

OffScaleVerdict ==
  [score |-> 11, hallucination_detected |-> FALSE, missing_warnings |-> FALSE,
   reasoning |-> "Perfect."]

\* The bodies json.loads accepts, with the value each parses to.
JsonDocs == {"{good verdict}", "{off-scale verdict}"}

json_value(doc) == IF doc = "{good verdict}" THEN GoodVerdict ELSE OffScaleVerdict

ReplyTexts ==
  {<<"<fence>json", "{good verdict}", "<fence>">>, <<"{good verdict}">>,
   <<"{off-scale verdict}">>, <<"I cannot evaluate this.">>}

\* messages of the errors generate_content raises
TransportErrors == {"504 Deadline Exceeded"}

\* What model.generate_content can do: raise, or answer with a text.
JudgeOutcomes ==
  {[raises |-> TRUE, msg |-> m, text |-> <<>>] : m \in TransportErrors}
    \cup {[raises |-> FALSE, msg |-> "", text |-> t] : t \in ReplyTexts}

\* eval_result.text.strip().replace(json fence, '').replace(fence, '')
cleaned_text(text) == SelectSeq(text, LAMBDA tok : tok \notin Fences)

\* json.loads: the value of the document, or a JSONDecodeError
json_loads(cleaned) ==
  IF Len(cleaned) = 1 /\ cleaned[1] \in JsonDocs
  THEN [raises |-> FALSE, msg |-> "", value |-> json_value(cleaned[1])]
  ELSE [raises |-> TRUE, msg |-> "Expecting value: line 1 column 1 (char 0)",
        value |-> [score |-> 0]]

\* the dictionary of the except branch
degraded_verdict(e) ==
  [error |-> e, score |-> 0, reasoning |-> "Evaluation pipeline failed."]

\* ClinicalEvaluator.evaluate_transaction against a judge that behaves as
\* judge says: [raised, value] is what the call does, prompt what it sent.
evaluate_transaction(query, context, response, judge) ==
  LET parsed == json_loads(cleaned_text(judge.text))
  IN  IF judge.raises
      THEN [raised |-> FALSE, value |-> degraded_verdict(judge.msg),
            prompt |-> prompt_of(query, context, response)]
      ELSE IF parsed.raises
      THEN [raised |-> FALSE, value |-> degraded_verdict(parsed.msg),
            prompt |-> prompt_of(query, context, response)]
      ELSE [raised |-> FALSE, value |-> parsed.value,
            prompt |-> prompt_of(query, context, response)]

\* The judge call of a transaction failed: the transport raised or the reply
\* did not parse.
JudgeFailed(judge) == judge.raises \/ json_loads(cleaned_text(judge.text)).raises

---------------------------------------------------------------------------
(* main.py: HealthAIGateway.process_transaction *)

Fields == {"query", "context", "response"}

\* the arguments of self.intelligence_layer.evaluate_transaction(...)
evaluator_argumentsRaw(raw_fields, safe_fields) ==
  [query |-> raw_fields.query, context |-> safe_fields.context,
   response |-> safe_fields.response]

evaluator_arguments(raw_fields, safe_fields) ==
  [query |-> safe_fields.query, context |-> safe_fields.context,
   response |-> safe_fields.response]

\* total_pii_detected = len(query_pii) + len(context_pii) + len(response_pii)
total_pii_detectedQueryOnly(query_pii, context_pii, response_pii) ==
  Len(query_pii)

total_pii_detected(query_pii, context_pii, response_pii) ==
  Len(query_pii) + Len(context_pii) + Len(response_pii)

\* list(set(...)): the elements of the set, once each, in an order Python
\* does not promise.
ListsOfSet(S) ==
  {l \in [1..Cardinality(S) -> S] : \A i, j \in 1..Cardinality(S) : i # j => l[i] # l[j]}

redacted_entity_typesNoSet(query_pii, context_pii, response_pii) ==
  {query_pii \o context_pii \o response_pii}

redacted_entity_types(query_pii, context_pii, response_pii) ==
  ListsOfSet(Range(query_pii \o context_pii \o response_pii))

final_reportNoVerdict(total, types, evaluation_result) ==
  [status |-> "success",
   security_audit |-> [pii_detected |-> total > 0, redacted_entity_types |-> types]]

final_reportAuditFromVerdict(total, types, evaluation_result) ==
  [status |-> "success",
   security_audit |-> [pii_detected |-> total > 0 /\ "error" \notin DOMAIN evaluation_result,
                       redacted_entity_types |-> types],
   clinical_quality |-> evaluation_result]

final_report(total, types, evaluation_result) ==
  [status |-> "success",
   security_audit |-> [pii_detected |-> total > 0, redacted_entity_types |-> types],
   clinical_quality |-> evaluation_result]

\* return {"error": "Evaluation Service Unavailable", "status": 503}
\* (the status code is kept as its decimal text)
error_report == [error |-> "Evaluation Service Unavailable", status |-> "503"]

---------------------------------------------------------------------------
(* State *)

VARIABLES
  pcApp,               \* app.py lifespan: "booting", "scrubber_built", "serving"
  security_layer,      \* HealthAIGateway.security_layer, "None" until built
  intelligence_layer,  \* HealthAIGateway.intelligence_layer, "None" until built
  gateway,             \* app.py global gateway: "None" or "HealthAIGateway"
  pc,                  \* position of the request being handled, "idle" if none
  raw,                 \* raw_query, raw_context, raw_response of the request
  engine,              \* what the engine did in the scrub call of each field
  safe,                \* safe_query, safe_context, safe_response
  pii,                 \* query_pii, context_pii, response_pii
  calls,               \* calls made for the request: analyze, anonymize, evaluate
  sent,                \* what the request handed to the evaluator and the judge
  judge,               \* what the judge did for the request
  response,            \* what the request's caller got
  call,                \* one scrub_text call (scrub_text specification)
  init_log,            \* what HealthAIGateway.__init__ did, in order
  detector,            \* the engine as a function of the text (concurrent calls)
  txs                  \* the locals of each concurrent process_transaction call

vars ==
  <<pcApp, security_layer, intelligence_layer, gateway, pc, raw, engine, safe,
    pii, calls, sent, judge, response, call, init_log, detector, txs>>

NoEngine == [raises |-> "none", results |-> <<>>]

NoJudge == [raises |-> FALSE, msg |-> "", text |-> <<>>]

NoResult ==
  [raised |-> FALSE, text |-> <<>>, types |-> <<>>, analyze_calls |-> 0, anonymize_calls |-> 0]

NoCall == [text |-> <<>>, engine |-> NoEngine, done |-> FALSE, result |-> NoResult]

EmptyFields == [f \in Fields |-> <<>>]

NoCalls == [analyze |-> 0, anonymize |-> 0, scrubbed |-> 0, evaluate |-> 0]

\* the concurrent calls are not part of this specification
conc_vars == <<detector, txs>>

Init ==
  /\ pcApp = "booting"
  /\ security_layer = "None"
  /\ intelligence_layer = "None"
  /\ gateway = "None"
  /\ pc = "idle"
  /\ raw = EmptyFields
  /\ engine = [f \in Fields |-> NoEngine]
  /\ safe = EmptyFields
  /\ pii = EmptyFields
  /\ calls = NoCalls
  /\ sent = <<>>
  /\ judge = NoJudge
  /\ response = [kind |-> "none"]
  /\ call = NoCall
  /\ init_log = <<>>
  /\ detector = <<>>
  /\ txs = <<>>

transaction_vars == <<pc, raw, engine, safe, pii, calls, sent, judge, response>>

---------------------------------------------------------------------------
(* main.py: HealthAIGateway.__init__, run by app.py lifespan *)

BuildScrubberSwallow ==
  /\ pcApp = "booting"
  /\ \E ok \in BOOLEAN :
       /\ security_layer' = IF ok THEN "LocalPIIScrubber" ELSE "None"
       /\ pcApp' = "scrubber_built"
       /\ init_log' = init_log \o <<"LocalPIIScrubber()">>
  /\ UNCHANGED <<intelligence_layer, gateway, transaction_vars, call, conc_vars>>

\* self.security_layer = LocalPIIScrubber(): it is built, or it raises and
\* __init__ raises RuntimeError, which lifespan catches; gateway stays None.
BuildScrubber ==
  /\ pcApp = "booting"
  /\ \E ok \in BOOLEAN :
       /\ security_layer' = IF ok THEN "LocalPIIScrubber" ELSE "None"
       /\ pcApp' = IF ok THEN "scrubber_built" ELSE "serving"
       /\ init_log' = init_log \o (IF ok THEN <<"LocalPIIScrubber()">>
                                    ELSE <<"LocalPIIScrubber()", "raise RuntimeError">>)
  /\ UNCHANGED <<intelligence_layer, gateway, transaction_vars, call, conc_vars>>

BuildEvaluatorSwallow ==
  /\ pcApp = "scrubber_built"
  /\ \E ok \in BOOLEAN :
       /\ intelligence_layer' = IF ok THEN "ClinicalEvaluator" ELSE "None"
       /\ security_layer' = security_layer
       /\ gateway' = "HealthAIGateway"
       /\ init_log' = init_log \o <<"ClinicalEvaluator()", "return">>
  /\ pcApp' = "serving"
  /\ UNCHANGED <<transaction_vars, call, conc_vars>>

\* self.intelligence_layer = ClinicalEvaluator(); on success __init__
\* returns and lifespan assigns the global.  On failure the half-built
\* object is dropped with its scrubber.
BuildEvaluator ==
  /\ pcApp = "scrubber_built"
  /\ \E ok \in BOOLEAN :
       /\ intelligence_layer' = IF ok THEN "ClinicalEvaluator" ELSE "None"
       /\ security_layer' = IF ok THEN security_layer ELSE "None"
       /\ gateway' = IF ok THEN "HealthAIGateway" ELSE "None"
       /\ init_log' = init_log \o <<"ClinicalEvaluator()",
                                     IF ok THEN "return" ELSE "raise RuntimeError">>
  /\ pcApp' = "serving"
  /\ UNCHANGED <<transaction_vars, call, conc_vars>>

---------------------------------------------------------------------------
(* app.py: evaluate_health_ai *)

\* if not gateway: raise HTTPException(status_code=503, ...)
RejectRequest ==
  /\ pcApp = "serving"
  /\ pc = "idle"
  /\ gateway = "None"
  /\ response' =
       [kind |-> "http_error", status_code |-> 503, detail |-> "Gateway not initialized"]
  /\ UNCHANGED <<pcApp, security_layer, intelligence_layer, gateway, pc, raw,
                 engine, safe, pii, calls, sent, judge, call, init_log, conc_vars>>

\* return gateway.process_transaction(request.query, request.context,
\* request.response): the call starts with the three scrub calls ahead.
ReceiveRequest ==
  /\ pcApp = "serving"
  /\ pc = "idle"
  /\ gateway # "None"
  /\ \E q \in FieldTexts, c \in FieldTexts, r \in FieldTexts :
       raw' = [query |-> q, context |-> c, response |-> r]
  /\ pc' = "scrub_query"
  /\ engine' = [f \in Fields |-> NoEngine]
  /\ safe' = EmptyFields
  /\ pii' = EmptyFields
  /\ calls' = NoCalls
  /\ sent' = <<>>
  /\ judge' = NoJudge
  /\ response' = [kind |-> "pending"]
  /\ UNCHANGED <<pcApp, security_layer, intelligence_layer, gateway, call, init_log,
                 conc_vars>>

---------------------------------------------------------------------------
(* main.py: HealthAIGateway.process_transaction *)

ScrubFailureDisablesGateway(f, next) ==
  \E o \in EngineOutcomes(raw[f]) :
    LET r == scrub_text(raw[f], o)
    IN  /\ engine' = IF r.analyze_calls > 0 THEN [engine EXCEPT ![f] = o] ELSE engine
        /\ calls' = [calls EXCEPT !.analyze = @ + r.analyze_calls,
                                  !.anonymize = @ + r.anonymize_calls,
                                  !.scrubbed = @ + (IF r.raised THEN 0 ELSE 1)]
        /\ IF r.raised
           THEN /\ pc' = "idle"
                /\ response' = [kind |-> "exception"]
                /\ gateway' = "None"
                /\ UNCHANGED <<safe, pii>>
           ELSE /\ pc' = next
                /\ safe' = [safe EXCEPT ![f] = r.text]
                /\ pii' = [pii EXCEPT ![f] = r.types]
                /\ UNCHANGED <<response, gateway>>
        /\ UNCHANGED <<pcApp, security_layer, intelligence_layer, raw,
                       sent, judge, call, init_log, conc_vars>>

\* safe_f, f_pii = self.security_layer.scrub_text(raw_f).  An exception of
\* the engine is not caught: it ends process_transaction and the request.
Scrub(f, next) ==
  \E o \in EngineOutcomes(raw[f]) :
    LET r == scrub_text(raw[f], o)
    IN  /\ engine' = IF r.analyze_calls > 0 THEN [engine EXCEPT ![f] = o] ELSE engine
        /\ calls' = [calls EXCEPT !.analyze = @ + r.analyze_calls,
                                  !.anonymize = @ + r.anonymize_calls,
                                  !.scrubbed = @ + (IF r.raised THEN 0 ELSE 1)]
        /\ IF r.raised
           THEN /\ pc' = "idle"
                /\ response' = [kind |-> "exception"]
                /\ UNCHANGED <<safe, pii>>
           ELSE /\ pc' = next
                /\ safe' = [safe EXCEPT ![f] = r.text]
                /\ pii' = [pii EXCEPT ![f] = r.types]
                /\ UNCHANGED response
        /\ UNCHANGED <<pcApp, security_layer, intelligence_layer, gateway, raw,
                       sent, judge, call, init_log, conc_vars>>

ScrubQuery == pc = "scrub_query" /\ Scrub("query", "scrub_context")

ScrubContextThenEvaluate == pc = "scrub_context" /\ Scrub("context", "evaluate")

ScrubContext == pc = "scrub_context" /\ Scrub("context", "scrub_response")

ScrubResponse == pc = "scrub_response" /\ Scrub("response", "evaluate")

\* Steps 2 and 3: the evaluator is called with the three arguments, and
\* the report is built from its answer, or the error report if it raised.
Evaluate ==
  /\ pc = "evaluate"
  /\ \E j \in JudgeOutcomes :
       LET args == evaluator_arguments(raw, safe)
           r == evaluate_transaction(args.query, args.context, args.response, j)
           total == total_pii_detected(pii.query, pii.context, pii.response)
       IN  \E types \in redacted_entity_types(pii.query, pii.context, pii.response) :
             /\ judge' = j
             /\ sent' = <<[args |-> args, prompt |-> r.prompt]>>
             /\ calls' = [calls EXCEPT !.evaluate = @ + 1]
             /\ response' =
                  [kind |-> "report",
                   body |-> IF r.raised THEN error_report
                            ELSE final_report(total, types, r.value)]
  /\ pc' = "idle"
  /\ UNCHANGED <<pcApp, security_layer, intelligence_layer, gateway, raw, engine,
                 safe, pii, call, init_log, conc_vars>>

Next ==
  \/ BuildScrubber
  \/ BuildEvaluator
  \/ RejectRequest
  \/ ReceiveRequest
  \/ ScrubQuery
  \/ ScrubContext
  \/ ScrubResponse
  \/ Evaluate

Spec == Init /\ [][Next]_vars

\* The calls of a transaction are synchronous: once the engine or the judge
\* returns (or raises), process_transaction goes on.
SpecLive ==
  /\ Init
  /\ [][Next]_vars
  /\ WF_vars(ScrubQuery)
  /\ WF_vars(ScrubContext)
  /\ WF_vars(ScrubResponse)
  /\ WF_vars(Evaluate)

---------------------------------------------------------------------------
(* scrub_text alone: every text and every answer of the engine *)

InitScrub ==
  /\ pcApp = "booting"
  /\ security_layer = "None"
  /\ intelligence_layer = "None"
  /\ gateway = "None"
  /\ pc = "idle"
  /\ raw = EmptyFields
  /\ engine = [f \in Fields |-> NoEngine]
  /\ safe = EmptyFields
  /\ pii = EmptyFields
  /\ calls = NoCalls
  /\ sent = <<>>
  /\ judge = NoJudge
  /\ response = [kind |-> "none"]
  /\ \E t \in Texts : \E o \in EngineOutcomes(t) :
       call = [text |-> t, engine |-> o, done |-> FALSE, result |-> NoResult]
  /\ init_log = <<>>
  /\ detector = <<>>
  /\ txs = <<>>

ScrubCall ==
  /\ ~call.done
  /\ call' = [call EXCEPT !.done = TRUE, !.result = scrub_text(call.text, call.engine)]
  /\ UNCHANGED <<pcApp, security_layer, intelligence_layer, gateway, transaction_vars,
                 init_log, conc_vars>>

NextScrub == ScrubCall

SpecScrub == InitScrub /\ [][NextScrub]_vars

---------------------------------------------------------------------------
(* Two process_transaction calls on one gateway, their steps interleaved.   *)
(* Each call has its own locals (txs[i]); the gateway object and the        *)
(* engine are shared.  The engine answers as a function of the text.        *)

Calls == {1, 2}

\* the field values of the concurrent requests
ConcTexts == {<<>>, <<"a", "b">>}

\* a deterministic engine: one outcome for every non-empty text
Detectors ==
  {d \in [ConcTexts \ {<<>>} -> UNION {EngineOutcomes(t) : t \in ConcTexts}] :
      \A t \in ConcTexts \ {<<>>} : d[t] \in EngineOutcomes(t)}

\* what the engine does when scrub_text is called on a text
EngineFor(text) == IF text = <<>> THEN NoEngine ELSE detector[text]

NoTx ==
  [pc |-> "not_started", raw |-> EmptyFields, safe |-> EmptyFields, pii |-> EmptyFields,
   sent |-> <<>>, judge |-> NoJudge, response |-> [kind |-> "none"]]

InitConc ==
  /\ pcApp = "serving"
  /\ security_layer = "LocalPIIScrubber"
  /\ intelligence_layer = "ClinicalEvaluator"
  /\ gateway = "HealthAIGateway"
  /\ init_log = <<"LocalPIIScrubber()", "ClinicalEvaluator()", "return">>
  /\ pc = "idle"
  /\ raw = EmptyFields
  /\ engine = [f \in Fields |-> NoEngine]
  /\ safe = EmptyFields
  /\ pii = EmptyFields
  /\ calls = NoCalls
  /\ sent = <<>>
  /\ judge = NoJudge
  /\ response = [kind |-> "none"]
  /\ call = NoCall
  /\ detector \in Detectors
  /\ txs = [i \in Calls |-> NoTx]

shared_vars ==
  <<pcApp, security_layer, intelligence_layer, gateway, init_log, transaction_vars,
    call, detector>>

\* process_transaction is entered with the three fields of a request
ConcStart(i) ==
  /\ txs[i].pc = "not_started"
  /\ \E q \in ConcTexts, c \in ConcTexts, r \in ConcTexts :
       txs' = [txs EXCEPT ![i].raw = [query |-> q, context |-> c, response |-> r],
                          ![i].pc = "scrub_query",
                          ![i].response = [kind |-> "pending"]]
  /\ UNCHANGED shared_vars

ConcScrubShared(i, f, next) ==
  LET r == scrub_text(txs[i].raw[f], EngineFor(txs[i].raw[f]))
  IN  /\ txs' = IF r.raised
                THEN [txs EXCEPT ![i].pc = "done", ![i].response = [kind |-> "exception"]]
                ELSE [j \in Calls |->
                        IF j = i
                        THEN [txs[j] EXCEPT !.pc = next, !.safe[f] = r.text, !.pii[f] = r.types]
                        ELSE [txs[j] EXCEPT !.safe[f] = r.text, !.pii[f] = r.types]]
      /\ UNCHANGED shared_vars

\* safe_f, f_pii = self.security_layer.scrub_text(raw_f): the results are
\* locals of the call
ConcScrub(i, f, next) ==
  LET r == scrub_text(txs[i].raw[f], EngineFor(txs[i].raw[f]))
  IN  /\ txs' = IF r.raised
                THEN [txs EXCEPT ![i].pc = "done", ![i].response = [kind |-> "exception"]]
                ELSE [txs EXCEPT ![i].pc = next, ![i].safe[f] = r.text, ![i].pii[f] = r.types]
      /\ UNCHANGED shared_vars

ConcScrubQuery(i) == txs[i].pc = "scrub_query" /\ ConcScrub(i, "query", "scrub_context")

ConcScrubContext(i) == txs[i].pc = "scrub_context" /\ ConcScrub(i, "context", "scrub_response")

ConcScrubResponse(i) == txs[i].pc = "scrub_response" /\ ConcScrub(i, "response", "evaluate")

\* the evaluator call and the report, from the locals of the call
ConcEvaluate(i) ==
  /\ txs[i].pc = "evaluate"
  /\ \E j \in JudgeOutcomes :
       LET t == txs[i]
           args == evaluator_arguments(t.raw, t.safe)
           r == evaluate_transaction(args.query, args.context, args.response, j)
           total == total_pii_detected(t.pii.query, t.pii.context, t.pii.response)
       IN  \E types \in redacted_entity_types(t.pii.query, t.pii.context, t.pii.response) :
             txs' = [txs EXCEPT
                       ![i].pc = "done",
                       ![i].judge = j,
                       ![i].sent = <<[args |-> args, prompt |-> r.prompt]>>,
                       ![i].response =
                          [kind |-> "report",
                           body |-> IF r.raised THEN error_report
                                    ELSE final_report(total, types, r.value)]]
  /\ UNCHANGED shared_vars

NextConc ==
  \E i \in Calls :
    \/ ConcStart(i)
    \/ ConcScrubQuery(i)
    \/ ConcScrubContext(i)
    \/ ConcScrubResponse(i)
    \/ ConcEvaluate(i)

SpecConc == InitConc /\ [][NextConc]_vars

---------------------------------------------------------------------------
(* Properties *)

Report == response.body

IsReport == response.kind = "report"

IsSuccess == IsReport /\ Report.status = "success"

\* the types the engine detected in a field of the request
DetectedIn(f) == {engine[f].results[i].entity_type : i \in 1..Len(engine[f].results)}

\* the number of spans the engine detected over the three fields
SpansDetected ==
  Len(engine.query.results) + Len(engine.context.results) + Len(engine.response.results)

\* the message of the error the judge call failed with
ErrorText(j) == IF j.raises THEN j.msg ELSE json_loads(cleaned_text(j.text)).msg

\* C1: the three arguments handed to the evaluator, and the transaction
\* text in the prompt sent to the judge, are exactly the texts scrub_text
\* returned for query, context and response; never a raw field.
C1_OnlySanitizedTextSent ==
  sent # <<>> =>
    LET scrubbed == [f \in Fields |-> scrub_text(raw[f], engine[f]).text]
    IN  /\ sent[1].args = scrubbed
        /\ sent[1].prompt.query = scrubbed.query
        /\ sent[1].prompt.context = scrubbed.context
        /\ sent[1].prompt.response = scrubbed.response
        /\ \A f \in Fields : engine[f].results # <<>> => sent[1].args[f] # raw[f]

C1_Witness ==
  /\ sent # <<>>
  /\ engine.query.results # <<>>
  /\ sent[1].args.query = PHONE

\* C2 (as claimed): whenever the judge call fails, process_transaction
\* returns a report whose status is service_unavailable.
C2_JudgeFailureIsServiceUnavailable ==
  (IsReport /\ JudgeFailed(judge)) => Report.status = "service_unavailable"

\* C3 (as claimed): when the judge call fails, no field of the verdict and
\* no field of the report holds the text of the error.
C3_ErrorTextNotReturned ==
  (IsReport /\ JudgeFailed(judge)) =>
    /\ "error" \in DOMAIN Report => Report.error # ErrorText(judge)
    /\ "clinical_quality" \in DOMAIN Report =>
         /\ "error" \in DOMAIN Report.clinical_quality =>
              Report.clinical_quality.error # ErrorText(judge)
         /\ Report.clinical_quality.reasoning # ErrorText(judge)

\* the placeholder the claim names for a detected type
Placeholder(entity_type) ==
  CASE entity_type = "PERSON" -> PATIENT_NAME
    [] entity_type = "PHONE_NUMBER" -> PHONE
    [] OTHER -> REDACTED

\* by how much the replacement of the spans that end at or before offset p
\* moves the text that follows them
RECURSIVE Growth(_, _)
Growth(spans, p) ==
  IF spans = {} THEN 0
  ELSE LET s == CHOOSE x \in spans : TRUE
       IN  (IF s.end <= p THEN Len(Placeholder(s.entity_type)) - (s.end - s.start) ELSE 0)
             + Growth(spans \ {s}, p)

\* where offset p of the text is in the sanitized text
Moved(spans, p) == p + Growth(spans, p)

ScrubReturned == call.done /\ ~call.result.raised

C5_EmptyTextShortCircuits ==
  (call.done /\ call.text = <<>>) =>
    /\ ~call.result.raised
    /\ call.result.text = <<>>
    /\ call.result.types = <<>>
    /\ call.result.analyze_calls = 0
    /\ call.result.anonymize_calls = 0

C5_Witness ==
  /\ call.done
  /\ call.text = <<>>
  /\ call.engine.raises = "analyze"
  /\ call.result.text = <<>>

\* C6: in a success report redacted_entity_types holds each type label at
\* most once, and as a set it is the union of the types detected in query,
\* context and response.
C6_TypesDeduplicatedUnion ==
  IsSuccess =>
    LET types == Report.security_audit.redacted_entity_types
    IN  /\ \A i, j \in 1..Len(types) : i # j => types[i] # types[j]
        /\ Range(types) = DetectedIn("query") \cup DetectedIn("context") \cup DetectedIn("response")

C6_Witness ==
  /\ IsSuccess
  /\ "PHONE_NUMBER" \in DetectedIn("query") \cap DetectedIn("context")
  /\ Report.security_audit.redacted_entity_types = <<"PHONE_NUMBER">>

\* C7: in a success report pii_detected is true exactly when the number of
\* spans detected over the three fields is above zero, which is exactly
\* when redacted_entity_types is not empty.
C7_PiiDetectedIffSpans ==
  IsSuccess =>
    /\ Report.security_audit.pii_detected <=> (SpansDetected > 0)
    /\ Report.security_audit.pii_detected <=>
         (Report.security_audit.redacted_entity_types # <<>>)

C7_Witness ==
  /\ IsSuccess
  /\ engine.query.results = <<>>
  /\ engine.response.results # <<>>
  /\ Report.security_audit.pii_detected

\* C8: if construction of the gateway failed, every /evaluate request gets
\* the 503 error and no scrub or evaluator call is made; a request is only
\* processed by a gateway with both its scrubber and its evaluator built.
C8_NoGatewayNoProcessing ==
  /\ (pcApp = "serving" /\ gateway = "None") =>
       /\ pc = "idle"
       /\ calls = NoCalls
       /\ sent = <<>>
       /\ response.kind \in {"none", "http_error"}
       /\ response.kind = "http_error" => response.status_code = 503
  /\ (pc # "idle" \/ response.kind \in {"pending", "exception", "report"}) =>
       /\ gateway = "HealthAIGateway"
       /\ security_layer = "LocalPIIScrubber"
       /\ intelligence_layer = "ClinicalEvaluator"

C8_Witness ==
  /\ pcApp = "serving"
  /\ gateway = "None"
  /\ response.kind = "http_error"
  /\ response.status_code = 503

\* C9: if the engine raises in one of the three scrub calls, the evaluator
\* is not invoked for that transaction and no report is produced: the
\* exception ends the transaction.
C9_ScrubFailureEndsTransaction ==
  \A f \in Fields :
    engine[f].raises # "none" =>
      /\ pc = "idle"
      /\ calls.evaluate = 0
      /\ sent = <<>>
      /\ response.kind = "exception"

C9_Witness ==
  /\ engine.query.results # <<>>
  /\ engine.context.raises = "anonymize"
  /\ response.kind = "exception"
  /\ calls.evaluate = 0

\* C10: every report has status success or service_unavailable, and it
\* holds the clinical_quality verdict exactly when its status is success.
C10_VerdictIffSuccess ==
  IsReport =>
    /\ Report.status \in {"success", "service_unavailable"}
    /\ ("clinical_quality" \in DOMAIN Report) <=> (Report.status = "success")

C10_Witness ==
  /\ IsReport
  /\ Report.status = "success"
  /\ "clinical_quality" \in DOMAIN Report
  /\ Report.clinical_quality = GoodVerdict

\* C11: the evaluator is invoked only after the three scrub calls of the
\* transaction have returned; when all three have returned it is invoked
\* exactly once, with empty strings where the fields are empty.
C11_EvaluatorAfterThreeScrubs ==
  /\ calls.evaluate <= 1
  /\ calls.evaluate = Len(sent)
  /\ calls.evaluate = 1 => calls.scrubbed = 3
  /\ pc = "evaluate" => (calls.scrubbed = 3 /\ calls.evaluate = 0)
  /\ (pc = "idle" /\ calls.scrubbed = 3) => calls.evaluate = 1
  /\ \A f \in Fields : (sent # <<>> /\ raw[f] = <<>>) => sent[1].args[f] = <<>>

C11_Witness ==
  /\ pc = "idle"
  /\ raw = EmptyFields
  /\ calls.scrubbed = 3
  /\ calls.evaluate = 1
  /\ sent[1].args = EmptyFields

\* C12: __init__ builds the scrubber before the evaluator.  If the scrubber
\* cannot be built the evaluator is never instantiated and construction
\* raises; if the evaluator cannot be built construction raises too; a
\* gateway exists only with both built.
C12_ScrubberFirstOrRaise ==
  /\ \A i \in 1..Len(init_log) :
       init_log[i] = "ClinicalEvaluator()" =>
         (i = 2 /\ init_log[1] = "LocalPIIScrubber()")
  /\ init_log # <<>> => init_log[1] = "LocalPIIScrubber()"
  /\ pcApp = "serving" =>
       /\ init_log[Len(init_log)] \in {"return", "raise RuntimeError"}
       /\ init_log[Len(init_log)] = "return" <=> gateway = "HealthAIGateway"
       /\ init_log[Len(init_log)] = "return" <=>
            (security_layer = "LocalPIIScrubber" /\ intelligence_layer = "ClinicalEvaluator")
  /\ gateway = "HealthAIGateway" =>
       (security_layer = "LocalPIIScrubber" /\ intelligence_layer = "ClinicalEvaluator")
  /\ intelligence_layer = "ClinicalEvaluator" => security_layer = "LocalPIIScrubber"

C12_Witness ==
  /\ pcApp = "serving"
  /\ init_log = <<"LocalPIIScrubber()", "raise RuntimeError">>
  /\ intelligence_layer = "None"
  /\ gateway = "None"

\* C13: no step changes a built gateway, its scrubber or its evaluator;
\* whenever no transaction is running (also after a success report, an
\* evaluator failure or a scrub failure) a further request can be taken;
\* and every started transaction ends, as its calls return.
C13_BackToReady ==
  /\ [][gateway = "HealthAIGateway" =>
          /\ gateway' = gateway
          /\ security_layer' = security_layer
          /\ intelligence_layer' = intelligence_layer]_vars
  /\ []((pc = "idle" /\ gateway = "HealthAIGateway") => ENABLED ReceiveRequest)
  /\ ((pc # "idle") ~> (pc = "idle"))

C13_Witness ==
  /\ pc = "idle"
  /\ response.kind = "exception"
  /\ gateway = "HealthAIGateway"
  /\ security_layer = "LocalPIIScrubber"
  /\ intelligence_layer = "ClinicalEvaluator"
  /\ ENABLED ReceiveRequest

\* what a call with the fields raw_fields hands to the evaluator when it
\* runs alone on the gateway
AloneScrub(raw_fields) ==
  [f \in Fields |-> scrub_text(raw_fields[f], EngineFor(raw_fields[f]))]

AloneArgs(raw_fields) == [f \in Fields |-> AloneScrub(raw_fields)[f].text]

\* the types a call with the fields raw_fields detects when it runs alone
AloneTypes(raw_fields) ==
  UNION {Range(AloneScrub(raw_fields)[f].types) : f \in Fields}

TxSuccess(i) ==
  txs[i].response.kind = "report" /\ txs[i].response.body.status = "success"

TxAudit(i) == txs[i].response.body.security_audit

\* C14: in every interleaving of two process_transaction calls on one
\* gateway, a step of one call changes neither the other call's state nor
\* the shared gateway, and the evaluator arguments and the security_audit
\* of each call are those the call produces when it runs alone.
C14_CallsAreIsolated ==
  /\ [][/\ \A i, j \in Calls : (i # j /\ txs'[i] # txs[i]) => txs'[j] = txs[j]
        /\ gateway' = gateway
        /\ security_layer' = security_layer
        /\ intelligence_layer' = intelligence_layer
        /\ detector' = detector]_vars
  /\ [](\A i \in Calls :
          /\ txs[i].sent # <<>> =>
               (txs[i].sent[1].args = AloneArgs(txs[i].raw)
                  /\ txs[i].sent[1].prompt = prompt_of(AloneArgs(txs[i].raw).query,
                                                       AloneArgs(txs[i].raw).context,
                                                       AloneArgs(txs[i].raw).response))
          /\ TxSuccess(i) =>
               (TxAudit(i).pii_detected = (AloneTypes(txs[i].raw) # {})
                  /\ Range(TxAudit(i).redacted_entity_types) = AloneTypes(txs[i].raw)))

\* both calls are under way with different fields, and one has ended with
\* its own sanitized text while the other was between its scrub calls
C14_Witness ==
  /\ txs[1].raw.query = <<"a", "b">>
  /\ txs[2].raw.query = <<>>
  /\ txs[2].pc = "scrub_context"
  /\ TxSuccess(1)
  /\ txs[1].sent[1].args.query # <<"a", "b">>
  /\ txs[1].sent[1].args.query # <<>>
  /\ TxAudit(1).pii_detected

\* C15: two calls with the same three fields on the same gateway, the
\* engine answering as a function of the text, report the same
\* SecurityAudit (same pii_detected, same set of types) whatever the judge
\* answered to each.
C15_SameTransactionSameAudit ==
  \A i, j \in Calls :
    (TxSuccess(i) /\ TxSuccess(j) /\ txs[i].raw = txs[j].raw) =>
      /\ TxAudit(i).pii_detected = TxAudit(j).pii_detected
      /\ Range(TxAudit(i).redacted_entity_types) = Range(TxAudit(j).redacted_entity_types)

C15_Witness ==
  /\ TxSuccess(1)
  /\ TxSuccess(2)
  /\ txs[1].raw = txs[2].raw
  /\ txs[1].judge # txs[2].judge
  /\ JudgeFailed(txs[1].judge)
  /\ txs[1].response.body.clinical_quality # txs[2].response.body.clinical_quality
  /\ Len(TxAudit(1).redacted_entity_types) = 2
  /\ TxAudit(1).redacted_entity_types # TxAudit(2).redacted_entity_types

FullVerdict(v) ==
  /\ DOMAIN v = {"score", "hallucination_detected", "missing_warnings", "reasoning"}
  /\ v.score \in 1..10
  /\ v.hallucination_detected \in BOOLEAN
  /\ v.missing_warnings \in BOOLEAN

\* C16 (as claimed): every value evaluate_transaction returns is a full
\* verdict with a score from 1 to 10, or, after a transport or parse
\* failure, the degraded verdict with score 0 and the fixed reasoning.
C16_VerdictFullOrDegraded ==
  IsSuccess =>
    \/ FullVerdict(Report.clinical_quality)
    \/ /\ JudgeFailed(judge)
       /\ Report.clinical_quality.score = 0
       /\ Report.clinical_quality.reasoning = "Evaluation pipeline failed."

\* C17: for a non-empty text the type list of scrub_text has one entry per
\* span the engine returned, in the engine's order, each the span's type;
\* the engine is asked for the six target types in English, so no other
\* label is in the list.
C17_TypesFollowEngineResults ==
  (ScrubReturned /\ call.text # <<>>) =>
    /\ Len(call.result.types) = Len(call.engine.results)
    /\ \A i \in 1..Len(call.engine.results) :
         call.result.types[i] = call.engine.results[i].entity_type
    /\ Range(call.result.types) \subseteq
         {"PERSON", "PHONE_NUMBER", "EMAIL_ADDRESS", "US_SSN", "US_DRIVER_LICENSE", "DATE_TIME"}
    /\ analyze_request.language = "en"

C17_Witness ==
  /\ ScrubReturned
  /\ Len(call.engine.results) = 2
  /\ call.engine.results[1].start > call.engine.results[2].start
  /\ call.engine.results[1].entity_type = "PERSON"
  /\ call.engine.results[2].entity_type = "PHONE_NUMBER"
  /\ call.result.types = <<"PERSON", "PHONE_NUMBER">>

====
